---- MODULE Spec2Model ----
(***************************************************************************)
(* The generate_image tool of the Gemini Imagen MCP server                 *)
(* (src/unnamed/part_000, with src/src/index.ts sharing the handler's      *)
(* skeleton): dispatch by tool name, argument validation, defaulting,      *)
(* the upstream configuration, the single generateImages call, the checks  *)
(* on its response, base64 decoding, the loop that writes the files, and   *)
(* the catch block that maps every failure to a protocol error.  Around    *)
(* it: the tools/list handler and its descriptor, the constructor that     *)
(* resolves the API key, run(), and the SIGINT handler.                    *)
(*                                                                         *)
(* One handler runs at a time: how the SDK hands requests to the handlers  *)
(* is no part of this source, and the model does not let two invocations   *)
(* overlap.  The handler's suspension point (the awaited upstream call)    *)
(* and every iteration of the synchronous write loop are separate steps,   *)
(* so that the clock read by Date.now() can advance between them.          *)
(***************************************************************************)
EXTENDS Integers, Sequences, FiniteSets, TLC

(***************************************************************************)
(* Bounds of the model.                                                    *)
(***************************************************************************)
\* Date.now() returns a value in 0..MaxClock and never goes back; requests
\* arrive while the clock is below MaxClock.
MaxClock == 1
\* The upstream service returns at most MaxImages elements.
MaxImages == 2

(***************************************************************************)
(* JavaScript values, as far as the handler inspects them.                 *)
(***************************************************************************)
Undefined == [type |-> "undefined"]
Null == [type |-> "null"]
Str(s) == [type |-> "string", val |-> s]
Num(n) == [type |-> "number", val |-> n]
Bool(b) == [type |-> "boolean", val |-> b]
Obj(f) == [type |-> "object", fields |-> f]

\* The typeof operator: typeof null is "object".
TypeOf(v) == IF v.type = "null" THEN "object" ELSE v.type

\* ToBoolean, as applied by ||, ! and if (...).
Truthy(v) ==
  CASE v.type = "undefined" -> FALSE
    [] v.type = "null" -> FALSE
    [] v.type = "string" -> v.val # ""
    [] v.type = "number" -> v.val # 0
    [] v.type = "boolean" -> v.val
    [] OTHER -> TRUE

\* A defaulting that gives way only for undefined and null (a ?? b).
NullishOr(a, b) == IF a.type \in {"undefined", "null"} THEN b ELSE a

\* a || b: the right operand replaces every falsy left operand.
Or(a, b) == IF Truthy(a) THEN a ELSE b

\* The property names the handler reads from the arguments.
ArgNames ==
  {"prompt", "numberOfImages", "aspectRatio", "sampleImageSize", "personGeneration"}

OptionalNames == ArgNames \ {"prompt"}

\* args.name: a property an object does not carry reads as undefined, and so
\* does a property of a primitive.  (The handler never reads a property of
\* null or undefined: && stops at the first false conjunct.)
Get(args, name) == IF args.type = "object" THEN args.fields[name] ELSE Undefined

(***************************************************************************)
(* Validation.                                                             *)
(***************************************************************************)
\* The validator of src/src/index.ts, which knows two fields only.
isValidGenerateImageArgsTwoFields(args) ==
  /\ TypeOf(args) = "object"
  /\ args # Null
  /\ TypeOf(Get(args, "prompt")) = "string"
  /\ (Get(args, "numberOfImages") = Undefined
        \/ TypeOf(Get(args, "numberOfImages")) = "number")

\* A validator that also holds numberOfImages to the schema's minimum and
\* maximum.
isValidGenerateImageArgsInRange(args) ==
  /\ TypeOf(args) = "object"
  /\ args # Null
  /\ TypeOf(Get(args, "prompt")) = "string"
  /\ (Get(args, "numberOfImages") = Undefined
        \/ (TypeOf(Get(args, "numberOfImages")) = "number"
              /\ Get(args, "numberOfImages").val \in 1..4))
  /\ (Get(args, "aspectRatio") = Undefined
        \/ TypeOf(Get(args, "aspectRatio")) = "string")
  /\ (Get(args, "sampleImageSize") = Undefined
        \/ TypeOf(Get(args, "sampleImageSize")) = "string")
  /\ (Get(args, "personGeneration") = Undefined
        \/ TypeOf(Get(args, "personGeneration")) = "string")

isValidGenerateImageArgs(args) ==
  /\ TypeOf(args) = "object"
  /\ args # Null
  /\ TypeOf(Get(args, "prompt")) = "string"
  /\ (Get(args, "numberOfImages") = Undefined
        \/ TypeOf(Get(args, "numberOfImages")) = "number")
  /\ (Get(args, "aspectRatio") = Undefined
        \/ TypeOf(Get(args, "aspectRatio")) = "string")
  /\ (Get(args, "sampleImageSize") = Undefined
        \/ TypeOf(Get(args, "sampleImageSize")) = "string")
  /\ (Get(args, "personGeneration") = Undefined
        \/ TypeOf(Get(args, "personGeneration")) = "string")

(***************************************************************************)
(* Protocol errors and the two early exits of the handler.                 *)
(***************************************************************************)
\* A piece of literal text; messages and texts are sequences of pieces.
Lit(s) == [lit |-> s]

\* new McpError(code, message)
McpError(code, message) == [class |-> "McpError", code |-> code, message |-> message]

ToolName == "generate_image"

\* A handler that validates the arguments before it looks at the tool name.
DispatchValidatingFirst(name, args) ==
  IF ~isValidGenerateImageArgs(args)
    THEN "InvalidParams"
    ELSE IF name # ToolName THEN "MethodNotFound" ELSE "generate"

\* The two guards that open the handler, in their order.
Dispatch(name, args) ==
  IF name # ToolName
    THEN "MethodNotFound"
    ELSE IF ~isValidGenerateImageArgs(args) THEN "InvalidParams" ELSE "generate"

UnknownToolError(name) == McpError("MethodNotFound", <<Lit("Unknown tool: "), Lit(name)>>)

InvalidArgumentsError == McpError("InvalidParams", <<Lit("Invalid generate_image arguments")>>)

(***************************************************************************)
(* Defaulting and the upstream configuration.                              *)
(***************************************************************************)
DefaultNumberOfImages == Num(1)

DefaultAspectRatio == Str("9:16")

DefaultSampleImageSize == Str("2K")

\* The default the tool descriptor advertises for personGeneration.
AdvertisedPersonGeneration == Str("allow_all")

DefaultPersonGeneration == Str("allow_adult")

\* The four locals computed from the arguments with ||.
Locals(args) ==
  [numberOfImages |-> Or(Get(args, "numberOfImages"), DefaultNumberOfImages),
   aspectRatio |-> Or(Get(args, "aspectRatio"), DefaultAspectRatio),
   sampleImageSize |-> Or(Get(args, "sampleImageSize"), DefaultSampleImageSize),
   personGeneration |-> Or(Get(args, "personGeneration"), DefaultPersonGeneration)]

\* config: numberOfImages always, each of the three others if it is truthy.
BuildConfig(locals) ==
  [n \in {"numberOfImages"}
        \cup {m \in {"aspectRatio", "personGeneration", "sampleImageSize"} :
                 Truthy(locals[m])} |-> locals[n]]

ImagenModelPrevious == "imagen-3.0-generate-002"

ImagenModel == "imagen-4.0-generate-001"

\* The argument of this.genAI.models.generateImages.
GenerateImagesParams(args) ==
  [model |-> ImagenModel,
   prompt |-> Get(args, "prompt"),
   config |-> BuildConfig(Locals(args))]

(***************************************************************************)
(* What the upstream call can give back.                                   *)
(***************************************************************************)
\* Base64 payloads, and the bytes Buffer.from(payload, "base64") decodes.
Payloads == {"QQ==", "Qg=="}

Base64Decode(payload) ==
  CASE payload = "QQ==" -> "A"
    [] payload = "Qg==" -> "B"

\* An element of generatedImages: one with an image, or one the service
\* filtered, which carries a reason and no image.
WithImage(payload) == [image |-> [imageBytes |-> payload]]

Filtered == [raiFilteredReason |-> "blocked"]

Elements == {WithImage(p) : p \in Payloads} \cup {Filtered}

\* A response without the generatedImages property.
ResponseWithoutList == [sdkHttpResponse |-> "ok"]

Responses ==
  {ResponseWithoutList}
    \cup {[generatedImages |-> imgs] :
            imgs \in UNION {[1..n -> Elements] : n \in 0..MaxImages}}

\* What a failing call or a failing write throws: an Error, a protocol error,
\* or a value that is no Error at all.
ApiError == [class |-> "Error", message |-> <<Lit("429 quota exceeded")>>]

UpstreamMcpError == McpError("InvalidRequest", <<Lit("request refused")>>)

ThrownString == [class |-> "string", val |-> "aborted"]

UpstreamErrors == {ApiError, UpstreamMcpError, ThrownString}

\* Reading .imageBytes of an element that has no image.
NoImageTypeError ==
  [class |-> "Error",
   message |-> <<Lit("Cannot read properties of undefined (reading 'imageBytes')")>>]

\* fs.writeFileSync failing.
WriteError ==
  [class |-> "Error", code |-> "ENOSPC",
   message |-> <<Lit("ENOSPC: no space left on device, write")>>]

(***************************************************************************)
(* The checks on the response, the decoding, and the catch block.          *)
(***************************************************************************)
\* A check that forgets the empty list.
NoImagesMissingOnly(response) == "generatedImages" \notin DOMAIN response

\* !response.generatedImages || response.generatedImages.length === 0
NoImages(response) ==
  \/ "generatedImages" \notin DOMAIN response
  \/ Len(response.generatedImages) = 0

NoImagesError == McpError("InternalError", <<Lit("No images generated.")>>)

\* The map over generatedImages throws at an element without an image.
MapThrows(response) ==
  \E k \in 1..Len(response.generatedImages) :
    "image" \notin DOMAIN response.generatedImages[k]

\* A decoding that returns the buffers last first.
ImageBuffersReversed(response) ==
  [k \in 1..Len(response.generatedImages) |->
    Base64Decode(
      response.generatedImages[Len(response.generatedImages) + 1 - k].image.imageBytes)]

\* generatedImages.map(image.imageBytes).map(Buffer.from(., "base64"))
ImageBuffers(response) ==
  [k \in 1..Len(response.generatedImages) |->
    Base64Decode(response.generatedImages[k].image.imageBytes)]

\* error instanceof Error ? error.message : String(error)
MessageOf(error) ==
  IF error.class \in {"Error", "McpError"} THEN error.message ELSE <<Lit(error.val)>>

\* A catch block that rethrows whatever it caught.
CatchRethrowing(error) == error

\* A catch block that reports a fixed message.
CatchOpaque(error) ==
  IF error.class = "McpError"
    THEN error
    ELSE McpError("InternalError", <<Lit("Image generation failed")>>)

\* A catch block that wraps whatever it caught, protocol errors too.
CatchWrappingAll(error) ==
  McpError("InternalError", <<Lit("Image generation failed: ")>> \o MessageOf(error))

\* The catch block: a protocol error passes, anything else is wrapped.
Catch(error) ==
  IF error.class = "McpError"
    THEN error
    ELSE McpError("InternalError", <<Lit("Image generation failed: ")>> \o MessageOf(error))

(***************************************************************************)
(* File names and the text of the successful result.                       *)
(***************************************************************************)
\* A path that leaves the index out: image 0 for every image.
FilePathWithoutIndex(timestamp, index) == [timestamp |-> timestamp, index |-> 0]

\* `/tmp/generated_image_${timestamp}_${index}.png`: the two numbers are all
\* that tells one such path from another.
FilePath(timestamp, index) == [timestamp |-> timestamp, index |-> index]

\* paths.join(", ")
RECURSIVE Join(_)
Join(paths) ==
  IF Len(paths) = 0 THEN <<>>
  ELSE IF Len(paths) = 1 THEN <<paths[1]>>
  ELSE <<paths[1], Lit(", ")>> \o Join(Tail(paths))

\* The content of the successful result.
Content(paths) ==
  <<[type |-> "text", text |-> <<Lit("Generated images saved to: ")>> \o Join(paths)]>>

(***************************************************************************)
(* The requests the transport delivers.                                    *)
(***************************************************************************)
ToolNames == {ToolName, "unknown_tool"}

\* An arguments object with the properties of `given`, the others absent.
Args(given) ==
  Obj([n \in ArgNames |-> IF n \in DOMAIN given THEN given[n] ELSE Undefined])

\* { prompt: "A cat" }
PromptOnly == Args([prompt |-> Str("A cat")])

\* The scenario of the specification: { prompt: "A cat", numberOfImages: 2 }
TwoImages == Args([prompt |-> Str("A cat"), numberOfImages |-> Num(2)])

\* The README's example with custom parameters.
CustomParameters ==
  Args([prompt |-> Str("A cat"), numberOfImages |-> Num(2), aspectRatio |-> Str("1:1"),
        sampleImageSize |-> Str("1K"), personGeneration |-> Str("dont_allow")])

\* Every optional property present and falsy.
AllFalsy ==
  Args([prompt |-> Str("A cat"), numberOfImages |-> Num(0), aspectRatio |-> Str(""),
        sampleImageSize |-> Str(""), personGeneration |-> Str("")])

\* Every optional property outside its range or enumeration.
OutOfRange ==
  Args([prompt |-> Str("A cat"), numberOfImages |-> Num(5), aspectRatio |-> Str("2:1"),
        sampleImageSize |-> Str("4K"), personGeneration |-> Str("nobody")])

\* Values of a wrong type for each property (and no prompt at all).
WrongValues(name) ==
  CASE name = "prompt" -> {Undefined, Num(7), Null}
    [] name = "numberOfImages" -> {Str("2"), Null}
    [] name = "aspectRatio" -> {Num(0)}
    [] name = "sampleImageSize" -> {Bool(TRUE)}
    [] name = "personGeneration" -> {Null}

\* { prompt: "A cat" } with one property replaced by a value of a wrong type.
OneWrong ==
  UNION {{Obj([PromptOnly.fields EXCEPT ![n] = v]) : v \in WrongValues(n)} : n \in ArgNames}

Arguments ==
  {Undefined, Null, Str("A cat")}
    \cup {PromptOnly, TwoImages, CustomParameters, AllFalsy, OutOfRange}
    \cup OneWrong

(***************************************************************************)
(* The handler of ListToolsRequestSchema: the one tool and its schema.     *)
(***************************************************************************)
\* inputSchema.properties: what each parameter's entry holds.
Properties ==
  [prompt |-> [type |-> "string"],
   numberOfImages |-> [type |-> "number", minimum |-> Num(1), maximum |-> Num(4)],
   aspectRatio |->
     [type |-> "string",
      enum |-> <<Str("1:1"), Str("3:4"), Str("4:3"), Str("9:16"), Str("16:9")>>,
      default |-> Str("9:16")],
   sampleImageSize |->
     [type |-> "string", enum |-> <<Str("1K"), Str("2K")>>, default |-> Str("2K")],
   personGeneration |->
     [type |-> "string",
      enum |-> <<Str("dont_allow"), Str("allow_adult"), Str("allow_all")>>,
      default |-> Str("allow_all")]]

ToolDescriptor ==
  [name |-> "generate_image",
   inputSchema |-> [type |-> "object", properties |-> Properties, required |-> <<"prompt">>]]

\* What the handler returns.
ListToolsResult == [tools |-> <<ToolDescriptor>>]

(***************************************************************************)
(* Start-up: the constructor's parameter and the environment.              *)
(***************************************************************************)
\* config.GEMINI_API_KEY || process.env.GEMINI_API_KEY, with the environment
\* consulted first.
ResolveApiKeyEnvironmentFirst(cfg, environment) ==
  Or(Get(environment, "GEMINI_API_KEY"), Get(cfg, "GEMINI_API_KEY"))

\* config.GEMINI_API_KEY || process.env.GEMINI_API_KEY
ResolveApiKey(cfg, environment) ==
  Or(Get(cfg, "GEMINI_API_KEY"), Get(environment, "GEMINI_API_KEY"))

\* An object whose GEMINI_API_KEY reads as key (undefined when it is absent).
WithKey(key) == Obj([n \in {"GEMINI_API_KEY"} |-> key])

\* The ways the process is started: the constructor's config and process.env.
Startups ==
  {[config |-> WithKey(Undefined), env |-> WithKey(Undefined)],
   [config |-> WithKey(Str("")), env |-> WithKey(Str(""))],
   [config |-> WithKey(Undefined), env |-> WithKey(Str("env-key"))],
   [config |-> WithKey(Str("config-key")), env |-> WithKey(Str("env-key"))]}

(***************************************************************************)
(* State.                                                                  *)
(***************************************************************************)
VARIABLES
  pc,            \* where the handler is: "idle", "awaiting", "persist", "done"
  request,       \* request.params of the call being handled
  upstreamCalls, \* the generateImages calls this invocation has issued
  upstream,      \* how the awaited call settled
  imageBuffers,  \* the decoded buffers
  filePaths,     \* the paths pushed so far
  i,             \* the loop index
  writes,        \* the writeFileSync calls of this invocation that succeeded,
                 \* each with the bytes it found at its path, if any
  error,         \* what the catch block caught
  outcomes,      \* the results and errors the handler has settled with
  fs,            \* the files under /tmp: path -> bytes
  now,           \* the last value of the clock
  listed,        \* the result of tools/list, when that was the last request
  proc,          \* the process: "loading", "constructed", "running",
                 \* "closing", "exited"
  transport,     \* the stdio transport: "none", "connected", "failed", "closed"
  apiKey,        \* this.GEMINI_API_KEY
  exitCode,      \* the code the process ended with
  config,        \* the constructor's parameter
  env            \* process.env

\* The handlers' variables, and the files and the clock they act on.
handlers ==
  <<pc, request, upstreamCalls, upstream, imageBuffers, filePaths, i, writes,
    error, outcomes, fs, now>>

\* The variables of the process and of its start.
lifecycle == <<proc, transport, apiKey, exitCode, config, env>>

vars == <<handlers, listed, lifecycle>>

NotListed == [tools |-> <<>>]

NoRequest == [name |-> "", arguments |-> Undefined]

Pending == [kind |-> "pending"]

NoError == [class |-> "none"]

NoFiles == [p \in {} |-> ""]

Init ==
  /\ pc = "idle"
  /\ request = NoRequest
  /\ upstreamCalls = <<>>
  /\ upstream = Pending
  /\ imageBuffers = <<>>
  /\ filePaths = <<>>
  /\ i = 0
  /\ writes = <<>>
  /\ error = NoError
  /\ outcomes = <<>>
  /\ fs = NoFiles
  /\ now = 0
  /\ listed = NotListed
  /\ proc = "loading"
  /\ transport = "none"
  /\ apiKey = Undefined
  /\ exitCode = Undefined
  /\ \E startup \in Startups :
       /\ config = startup.config
       /\ env = startup.env

\* The handler's promise rejects with the protocol error e.
Rejected(e) == [kind |-> "error", error |-> e]

\* The handler's promise resolves with content.
Resolved(content) == [kind |-> "result", content |-> content]

(***************************************************************************)
(* The handler of CallToolRequestSchema.                                   *)
(***************************************************************************)
\* From the arrival of the request to the first await: the two guards, the
\* defaulting, the configuration and the call of generateImages.  (No
\* request arrives once the clock has run up to its bound.)
CallTool(name, args) ==
  /\ proc = "running"
  /\ pc = "idle"
  /\ now < MaxClock
  /\ listed' = NotListed
  /\ UNCHANGED lifecycle
  /\ request' = [name |-> name, arguments |-> args]
  /\ CASE Dispatch(name, args) = "MethodNotFound" ->
            /\ outcomes' = Append(outcomes, Rejected(UnknownToolError(name)))
            /\ pc' = "done"
            /\ UNCHANGED upstreamCalls
        [] Dispatch(name, args) = "InvalidParams" ->
            /\ outcomes' = Append(outcomes, Rejected(InvalidArgumentsError))
            /\ pc' = "done"
            /\ UNCHANGED upstreamCalls
        [] OTHER ->
            /\ upstreamCalls' = Append(upstreamCalls, GenerateImagesParams(args))
            /\ pc' = "awaiting"
            /\ UNCHANGED outcomes
  /\ UNCHANGED <<upstream, imageBuffers, filePaths, i, writes, error, fs, now>>

\* The awaited call throws; the catch block settles the invocation.
GenerateImagesRejects(e) ==
  /\ proc = "running"
  /\ pc = "awaiting"
  /\ UNCHANGED <<listed, lifecycle>>
  /\ upstream' = [kind |-> "rejected", error |-> e]
  /\ error' = e
  /\ outcomes' = Append(outcomes, Rejected(Catch(e)))
  /\ pc' = "done"
  /\ UNCHANGED <<request, upstreamCalls, imageBuffers, filePaths, i, writes, fs, now>>

\* The awaited call returns: the check for images, the two maps, and the
\* entry into the loop.
GenerateImagesResolves(response) ==
  /\ proc = "running"
  /\ pc = "awaiting"
  /\ UNCHANGED <<listed, lifecycle>>
  /\ upstream' = [kind |-> "resolved", response |-> response]
  /\ IF NoImages(response)
       THEN /\ error' = NoImagesError
            /\ outcomes' = Append(outcomes, Rejected(Catch(NoImagesError)))
            /\ pc' = "done"
            /\ UNCHANGED <<imageBuffers, filePaths, i>>
       ELSE IF MapThrows(response)
         THEN /\ error' = NoImageTypeError
              /\ outcomes' = Append(outcomes, Rejected(Catch(NoImageTypeError)))
              /\ pc' = "done"
              /\ UNCHANGED <<imageBuffers, filePaths, i>>
         ELSE /\ imageBuffers' = ImageBuffers(response)
              /\ filePaths' = <<>>
              /\ i' = 0
              /\ pc' = "persist"
              /\ UNCHANGED <<error, outcomes>>
  /\ UNCHANGED <<request, upstreamCalls, writes, fs, now>>

\* One iteration of the loop whose write succeeds.  Date.now() returns t:
\* the clock may have advanced since it was last read, and never goes back.
WriteFile(t) ==
  /\ pc = "persist"
  /\ i < Len(imageBuffers)
  /\ UNCHANGED <<listed, lifecycle>>
  /\ now' = t
  /\ fs' = (FilePath(t, i) :> imageBuffers[i + 1]) @@ fs
  /\ writes' = Append(writes, [path |-> FilePath(t, i), data |-> imageBuffers[i + 1],
                               replaced |-> IF FilePath(t, i) \in DOMAIN fs
                                              THEN <<fs[FilePath(t, i)]>> ELSE <<>>])
  /\ filePaths' = Append(filePaths, FilePath(t, i))
  /\ i' = i + 1
  /\ UNCHANGED <<pc, request, upstreamCalls, upstream, imageBuffers, error, outcomes>>

\* One iteration of the loop whose write throws: the catch block settles the
\* invocation, and the files written before stay.  (The reading of the clock
\* that preceded the write is not used; a later reading may be as late.)
WriteFileThrows ==
  /\ pc = "persist"
  /\ i < Len(imageBuffers)
  /\ UNCHANGED <<listed, lifecycle>>
  /\ error' = WriteError
  /\ outcomes' = Append(outcomes, Rejected(Catch(WriteError)))
  /\ pc' = "done"
  /\ UNCHANGED <<request, upstreamCalls, upstream, imageBuffers, filePaths, i, writes,
                 fs, now>>

\* The loop is over: the handler returns the text that lists the paths.
ReturnContent ==
  /\ pc = "persist"
  /\ i = Len(imageBuffers)
  /\ UNCHANGED <<listed, lifecycle>>
  /\ outcomes' = Append(outcomes, Resolved(Content(filePaths)))
  /\ pc' = "done"
  /\ UNCHANGED <<request, upstreamCalls, upstream, imageBuffers, filePaths, i, writes,
                 error, fs, now>>

\* A handler whose filePaths is no local: the list outlives the invocation.
DeliverKeepingPaths ==
  /\ pc = "done"
  /\ pc' = "idle"
  /\ request' = NoRequest
  /\ upstreamCalls' = <<>>
  /\ upstream' = Pending
  /\ imageBuffers' = <<>>
  /\ i' = 0
  /\ writes' = <<>>
  /\ error' = NoError
  /\ outcomes' = <<>>
  /\ UNCHANGED <<filePaths, fs, now, listed, lifecycle>>

\* The response is sent and the invocation's locals are gone; the files and
\* the clock are all that is left of it.
Deliver ==
  /\ pc = "done"
  /\ pc' = "idle"
  /\ request' = NoRequest
  /\ upstreamCalls' = <<>>
  /\ upstream' = Pending
  /\ imageBuffers' = <<>>
  /\ filePaths' = <<>>
  /\ i' = 0
  /\ writes' = <<>>
  /\ error' = NoError
  /\ outcomes' = <<>>
  /\ UNCHANGED <<fs, now, listed, lifecycle>>

\* A tools/list request: the handler has no await, and its result is the
\* same literal every time.
ListTools ==
  /\ proc = "running"
  /\ pc = "idle"
  /\ listed' = ListToolsResult
  /\ UNCHANGED <<handlers, lifecycle>>

(***************************************************************************)
(* The process: the top level of the module, run() and the SIGINT handler. *)
(***************************************************************************)
\* new GeminiImagenServer(): the key is resolved; without one the
\* constructor throws, nothing catches it, and the process ends with code 1
\* before run() is called.
Construct ==
  /\ proc = "loading"
  /\ IF Truthy(ResolveApiKey(config, env))
       THEN /\ apiKey' = ResolveApiKey(config, env)
            /\ proc' = "constructed"
            /\ UNCHANGED exitCode
       ELSE /\ proc' = "exited"
            /\ exitCode' = Num(1)
            /\ UNCHANGED apiKey
  /\ UNCHANGED <<handlers, listed, transport, config, env>>

\* run(): server.connect(transport) resolves, and the server is on stdio.
RunConnects ==
  /\ proc = "constructed"
  /\ transport = "none"
  /\ transport' = "connected"
  /\ proc' = "running"
  /\ UNCHANGED <<handlers, listed, apiKey, exitCode, config, env>>

\* run(): server.connect(transport) rejects.  The top level catches the
\* rejection with console.error and sets no exit code; with no transport
\* open the process ends, with code 0.
RunRejects ==
  /\ proc = "constructed"
  /\ transport = "none"
  /\ transport' = "failed"
  /\ proc' = "exited"
  /\ exitCode' = Num(0)
  /\ UNCHANGED <<handlers, listed, apiKey, config, env>>

\* SIGINT: the handler calls server.close() and awaits it.  Signals are
\* taken between the steps of the event loop: while connect is pending,
\* while the server is idle, or while a handler awaits generateImages.
Sigint ==
  /\ proc \in {"constructed", "running"}
  /\ pc \in {"idle", "awaiting"}
  /\ transport' = "closed"
  /\ proc' = "closing"
  /\ UNCHANGED <<handlers, listed, apiKey, exitCode, config, env>>

\* server.close() has resolved: process.exit(0).  A handler that awaits
\* generateImages ends with the process and settles nothing.
Exit ==
  /\ proc = "closing"
  /\ proc' = "exited"
  /\ exitCode' = Num(0)
  /\ UNCHANGED <<handlers, listed, transport, apiKey, config, env>>

Next ==
  \/ \E name \in ToolNames, args \in Arguments : CallTool(name, args)
  \/ \E e \in UpstreamErrors : GenerateImagesRejects(e)
  \/ \E response \in Responses : GenerateImagesResolves(response)
  \/ \E t \in now..MaxClock : WriteFile(t)
  \/ WriteFileThrows
  \/ ReturnContent
  \/ Deliver
  \/ ListTools
  \/ Construct
  \/ RunConnects
  \/ RunRejects
  \/ Sigint
  \/ Exit

Spec == Init /\ [][Next]_vars

(***************************************************************************)
(* Vocabulary of the properties.                                           *)
(***************************************************************************)
\* The arguments fail validation as the specification words it: not a
\* non-null object, no textual prompt, or an optional field of a wrong type.
FailsValidation(args) ==
  \/ args.type # "object"
  \/ Get(args, "prompt").type # "string"
  \/ Get(args, "numberOfImages").type \notin {"undefined", "number"}
  \/ \E n \in {"aspectRatio", "sampleImageSize", "personGeneration"} :
       Get(args, n).type \notin {"undefined", "string"}

\* The invocation has settled with exactly one protocol error of this code.
FailedWith(code) ==
  /\ pc = "done"
  /\ Len(outcomes) = 1
  /\ outcomes[1].kind = "error"
  /\ outcomes[1].error.class = "McpError"
  /\ outcomes[1].error.code = code

\* The invocation has settled with exactly one successful result.
Succeeded ==
  /\ pc = "done"
  /\ Len(outcomes) = 1
  /\ outcomes[1].kind = "result"

\* The paths a text lists, in order.
PathsIn(text) == SelectSeq(text, LAMBDA piece : "timestamp" \in DOMAIN piece)

\* part occurs in message as a contiguous run of pieces.
Contains(message, part) ==
  \E o \in 0..(Len(message) - Len(part)) : SubSeq(message, o + 1, o + Len(part)) = part

\* The message of a thrown value: an Error's message, or the value itself.
OriginalMessage(e) == IF "message" \in DOMAIN e THEN e.message ELSE <<Lit(e.val)>>

\* The defaults the specification and the README document.
DocumentedDefault(n) ==
  CASE n = "numberOfImages" -> Num(1)
    [] n = "aspectRatio" -> Str("9:16")
    [] n = "sampleImageSize" -> Str("2K")
    [] n = "personGeneration" -> Str("allow_adult")

\* An explicit empty string or zero.
EmptyOrZero(v) == v = Str("") \/ v = Num(0)

(***************************************************************************)
(* C1  Arguments that fail validation: InvalidParams, no upstream call, no *)
(* file.                                                                   *)
(***************************************************************************)
\* C1: whenever the request at hand names generate_image and its arguments
\* fail validation, the invocation has failed with InvalidParams, has issued
\* no upstream call and has written no file.
C1_InvalidArgumentsRejected ==
  (request.name = ToolName /\ FailsValidation(request.arguments)) =>
    /\ FailedWith("InvalidParams")
    /\ upstreamCalls = <<>>
    /\ writes = <<>>

\* A textual prompt with an aspectRatio of a wrong type has been rejected.
C1_Witness ==
  /\ request.name = ToolName
  /\ Get(request.arguments, "prompt") = Str("A cat")
  /\ Get(request.arguments, "aspectRatio") = Num(0)
  /\ FailedWith("InvalidParams")
  /\ upstreamCalls = <<>>

(***************************************************************************)
(* C2  N payloads give N files and N paths, in upstream order.             *)
(***************************************************************************)
\* C2: when an invocation has come to its end on an upstream response of
\* N >= 1 payloads and no write has failed, it has succeeded, exactly N files
\* were written and N paths returned, and the k-th path has index k-1 and
\* holds the bytes of the k-th payload, whatever numberOfImages asked for.
C2_OneFilePerPayload ==
  (/\ pc = "done"
   /\ upstream.kind = "resolved"
   /\ "generatedImages" \in DOMAIN upstream.response
   /\ Len(upstream.response.generatedImages) >= 1
   /\ \A k \in 1..Len(upstream.response.generatedImages) :
        "image" \in DOMAIN upstream.response.generatedImages[k]
   /\ error # WriteError) =>
    /\ Succeeded
    /\ LET images == upstream.response.generatedImages
           returned == PathsIn(outcomes[1].content[1].text)
       IN /\ Len(writes) = Len(images)
          /\ Len(returned) = Len(images)
          /\ \A k \in 1..Len(images) :
               /\ returned[k] = writes[k].path
               /\ returned[k].index = k - 1
               /\ writes[k].data = Base64Decode(images[k].image.imageBytes)
               /\ returned[k] \in DOMAIN fs
               /\ fs[returned[k]] = writes[k].data

\* One image was asked for by default, upstream returned two different
\* payloads, and both were written and returned.
C2_Witness ==
  /\ Succeeded
  /\ request.arguments = PromptOnly
  /\ upstream.response.generatedImages = <<WithImage("Qg=="), WithImage("QQ==")>>
  /\ Len(writes) = 2
  /\ fs[writes[1].path] = "B"
  /\ fs[writes[2].path] = "A"

(***************************************************************************)
(* C3  No images: InternalError, no file.                                  *)
(***************************************************************************)
\* C3: when the upstream call has returned a result whose image list is
\* missing or empty, the invocation has failed with InternalError and has
\* written no file.
C3_NoImagesIsInternalError ==
  (/\ upstream.kind = "resolved"
   /\ \/ "generatedImages" \notin DOMAIN upstream.response
      \/ upstream.response.generatedImages = <<>>) =>
    /\ FailedWith("InternalError")
    /\ writes = <<>>

\* An empty list has been answered with InternalError.
C3_Witness ==
  /\ upstream = [kind |-> "resolved", response |-> [generatedImages |-> <<>>]]
  /\ FailedWith("InternalError")
  /\ outcomes[1].error.message = <<Lit("No images generated.")>>

(***************************************************************************)
(* C4  A generic upstream failure: InternalError carrying its message.     *)
(***************************************************************************)
\* C4: when the upstream call has thrown something that is no protocol
\* error, the invocation has failed with InternalError, the message of that
\* error contains the message of what was thrown, and no file is written.
C4_UpstreamFailureWrapped ==
  (upstream.kind = "rejected" /\ upstream.error.class # "McpError") =>
    /\ FailedWith("InternalError")
    /\ Contains(outcomes[1].error.message, OriginalMessage(upstream.error))
    /\ writes = <<>>

\* The quota error of the service has been reported as InternalError.
C4_Witness ==
  /\ upstream = [kind |-> "rejected", error |-> ApiError]
  /\ FailedWith("InternalError")
  /\ Contains(outcomes[1].error.message, <<Lit("429 quota exceeded")>>)

(***************************************************************************)
(* C5  An unknown tool name: MethodNotFound before any validation.         *)
(***************************************************************************)
\* C5: whenever the request at hand names another tool than generate_image,
\* whatever its arguments, the invocation has failed with MethodNotFound and
\* has issued no upstream call and written no file.
C5_UnknownToolBeforeValidation ==
  (pc # "idle" /\ request.name # ToolName) =>
    /\ FailedWith("MethodNotFound")
    /\ upstreamCalls = <<>>
    /\ writes = <<>>

\* An unknown tool called with arguments that would fail validation.
C5_Witness ==
  /\ request.name = "unknown_tool"
  /\ FailsValidation(request.arguments)
  /\ FailedWith("MethodNotFound")

(***************************************************************************)
(* C6  Defaults of the omitted optional fields.                            *)
(***************************************************************************)
\* C6 as stated: in the request sent upstream every omitted optional field
\* has its documented default and every supplied one its supplied value.
C6_SuppliedValuesKept ==
  \A c \in 1..Len(upstreamCalls) : \A n \in OptionalNames :
    /\ n \in DOMAIN upstreamCalls[c].config
    /\ upstreamCalls[c].config[n] =
         IF Get(request.arguments, n) = Undefined
           THEN DocumentedDefault(n)
           ELSE Get(request.arguments, n)

\* C6 as amended: in the request sent upstream every omitted optional field
\* has its documented default, and every field supplied as a non-zero number
\* or a non-empty string has its supplied value.
C6_DefaultsForOmitted ==
  \A c \in 1..Len(upstreamCalls) : \A n \in OptionalNames :
    LET v == Get(request.arguments, n)
    IN /\ v = Undefined =>
            /\ n \in DOMAIN upstreamCalls[c].config
            /\ upstreamCalls[c].config[n] = DocumentedDefault(n)
       /\ (v # Undefined /\ ~EmptyOrZero(v)) =>
            /\ n \in DOMAIN upstreamCalls[c].config
            /\ upstreamCalls[c].config[n] = v

\* { prompt: "A cat", numberOfImages: 2 } was sent with the supplied number
\* and the defaults of the three fields it omits.
C6_Witness ==
  /\ request.arguments = TwoImages
  /\ Len(upstreamCalls) = 1
  /\ upstreamCalls[1].config =
       [numberOfImages |-> Num(2), aspectRatio |-> Str("9:16"),
        sampleImageSize |-> Str("2K"), personGeneration |-> Str("allow_adult")]

(***************************************************************************)
(* C7  Fields supplied as an empty string or as zero.                      *)
(***************************************************************************)
\* C7 as stated: a field supplied as an explicit empty string or as zero is
\* left out of the upstream configuration.
C7_EmptyOrZeroOmitted ==
  \A c \in 1..Len(upstreamCalls) : \A n \in OptionalNames :
    EmptyOrZero(Get(request.arguments, n)) => n \notin DOMAIN upstreamCalls[c].config

\* C7 as amended: a field supplied as an explicit empty string or as zero is
\* treated as not set, which gives it its documented default, and that
\* default is forwarded: the upstream configuration always carries the field.
C7_EmptyOrZeroDefaulted ==
  \A c \in 1..Len(upstreamCalls) : \A n \in OptionalNames :
    EmptyOrZero(Get(request.arguments, n)) =>
      /\ n \in DOMAIN upstreamCalls[c].config
      /\ upstreamCalls[c].config[n] = DocumentedDefault(n)
      /\ upstreamCalls[c].config[n] # Get(request.arguments, n)

\* A request with numberOfImages 0 and three empty strings went upstream
\* with the four defaults.
C7_Witness ==
  /\ request.arguments = AllFalsy
  /\ Len(upstreamCalls) = 1
  /\ upstreamCalls[1].config =
       [numberOfImages |-> Num(1), aspectRatio |-> Str("9:16"),
        sampleImageSize |-> Str("2K"), personGeneration |-> Str("allow_adult")]

(***************************************************************************)
(* C8  One timestamp for the files of one invocation.                      *)
(***************************************************************************)
\* C8: the files one invocation has written carry the same timestamp and the
\* indices 0, 1, ... in upstream order, also when the clock advances between
\* two writes.
C8_SharedTimestamp ==
  \A j, k \in 1..Len(writes) :
    /\ writes[k].path.index = k - 1
    /\ writes[j].path.timestamp = writes[k].path.timestamp

(***************************************************************************)
(* C9  A failing write fails the invocation and rolls nothing back.        *)
(***************************************************************************)
\* C9: when the write of image k (counted from 0) has thrown, the invocation
\* has failed with InternalError and no successful result, no image after k
\* is written, and the files of the images before k are in place with their
\* bytes.
C9_FailedWriteFailsInvocation ==
  (pc = "done" /\ error = WriteError) =>
    /\ FailedWith("InternalError")
    /\ \A o \in 1..Len(outcomes) : outcomes[o].kind # "result"
    /\ i < Len(imageBuffers)
    /\ Len(writes) = i
    /\ \A j \in 1..Len(writes) :
         /\ writes[j].path.index = j - 1
         /\ writes[j].data = imageBuffers[j]
         /\ writes[j].path \in DOMAIN fs
         /\ fs[writes[j].path] = writes[j].data

\* The second of two writes has thrown and the first file is still there.
C9_Witness ==
  /\ pc = "done"
  /\ error = WriteError
  /\ Len(imageBuffers) = 2
  /\ i = 1
  /\ Len(writes) = 1
  /\ writes[1].path \in DOMAIN fs
  /\ FailedWith("InternalError")

(***************************************************************************)
(* C10  One upstream call and one outcome per invocation.                  *)
(***************************************************************************)
\* C10: an invocation issues at most one upstream call; one that names
\* generate_image and passes validation has issued exactly one, with the
\* model imagen-4.0-generate-001, whatever became of it; and a finished
\* invocation has exactly one outcome, a result or a protocol error, an
\* unfinished one none.
C10_OneCallOneOutcome ==
  /\ Len(upstreamCalls) <= 1
  /\ (request.name = ToolName /\ ~FailsValidation(request.arguments)) =>
       /\ Len(upstreamCalls) = 1
       /\ upstreamCalls[1].model = "imagen-4.0-generate-001"
  /\ pc = "done" => (Succeeded \/ \E code \in {"MethodNotFound", "InvalidParams",
                                                  "InternalError", "InvalidRequest"} :
                                     FailedWith(code))
  /\ pc # "done" => outcomes = <<>>

\* The upstream call has failed and was not repeated.
C10_Witness ==
  /\ pc = "done"
  /\ upstream.kind = "rejected"
  /\ Len(upstreamCalls) = 1
  /\ upstreamCalls[1].model = "imagen-4.0-generate-001"
  /\ Len(outcomes) = 1

(***************************************************************************)
(* C11  The descriptor advertises the documented and applied defaults.     *)
(***************************************************************************)
\* The values the specification and the README allow for an enumerated field.
DocumentedEnumeration(n) ==
  CASE n = "aspectRatio" -> {Str("1:1"), Str("3:4"), Str("4:3"), Str("9:16"), Str("16:9")}
    [] n = "sampleImageSize" -> {Str("1K"), Str("2K")}
    [] n = "personGeneration" -> {Str("dont_allow"), Str("allow_adult"), Str("allow_all")}

\* The elements of a sequence.
Range(seq) == {seq[k] : k \in 1..Len(seq)}

\* C11: the descriptor that tools/list returns gives every optional parameter
\* a default, which is the documented one and the one the handler applies to
\* a call that omits the field; it lists the documented values of the three
\* enumerated fields and bounds numberOfImages by 1 and 4.
C11_AdvertisedDefaultsAsDocumented ==
  listed # NotListed =>
    LET properties == listed.tools[1].inputSchema.properties IN
      /\ properties.numberOfImages.minimum = Num(1)
      /\ properties.numberOfImages.maximum = Num(4)
      /\ \A n \in OptionalNames \ {"numberOfImages"} :
           /\ "enum" \in DOMAIN properties[n]
           /\ Range(properties[n].enum) = DocumentedEnumeration(n)
      /\ \A n \in OptionalNames :
           /\ "default" \in DOMAIN properties[n]
           /\ properties[n].default = DocumentedDefault(n)
           /\ properties[n].default = Locals(PromptOnly)[n]

(***************************************************************************)
(* C12  No transport without a credential; config before environment.      *)
(***************************************************************************)
\* A non-empty text.
NonEmpty(v) == v.type = "string" /\ v.val # ""

\* C12: whenever the transport has been connected (or closed since), a
\* non-empty credential had been resolved, and it is the configuration value
\* if that is non-empty and the environment variable otherwise; and when
\* neither is non-empty the transport is never touched, the constructor never
\* completes, and the process ends with code 1.
C12_ConnectedOnlyWithKey ==
  LET configKey == Get(config, "GEMINI_API_KEY")
      envKey == Get(env, "GEMINI_API_KEY")
  IN /\ transport # "none" =>
          /\ NonEmpty(apiKey)
          /\ apiKey = IF NonEmpty(configKey) THEN configKey ELSE envKey
     /\ (~NonEmpty(configKey) /\ ~NonEmpty(envKey)) =>
          /\ transport = "none"
          /\ apiKey = Undefined
          /\ proc \in {"loading", "exited"}
          /\ proc = "exited" => exitCode = Num(1)

\* Both values were there, the server is connected, and its key is the
\* configuration value.
C12_Witness ==
  /\ transport = "connected"
  /\ Get(config, "GEMINI_API_KEY") = Str("config-key")
  /\ Get(env, "GEMINI_API_KEY") = Str("env-key")
  /\ apiKey = Str("config-key")

(***************************************************************************)
(* C14  A failed start or a failed run ends the process with a non-zero    *)
(* code.                                                                   *)
(***************************************************************************)
\* C14: a process that has ended after server.connect rejected, or without
\* having resolved a credential, has ended with a non-zero code; and a process
\* that has ended with code 0 has gone through the shutdown that the
\* interrupt signal starts.
C14_FailureExitsNonZero ==
  proc = "exited" =>
    /\ transport = "failed" => exitCode # Num(0)
    /\ apiKey = Undefined => exitCode # Num(0)
    /\ exitCode = Num(0) => transport = "closed"

(***************************************************************************)
(* C15  The interrupt handler closes, then exits with 0, and masks no      *)
(* call in flight.                                                         *)
(***************************************************************************)
\* C15: while the interrupt handler waits for server.close() the transport is
\* closed and the process has not ended; once the process has ended that way
\* its code is 0; and a process that has ended with code 0 has left no
\* invocation unfinished.
C15_ShutdownMasksNoCall ==
  /\ proc = "closing" => (transport = "closed" /\ exitCode = Undefined)
  /\ (proc = "exited" /\ transport = "closed") => exitCode = Num(0)
  /\ (proc = "exited" /\ exitCode = Num(0) /\ transport = "closed") => pc = "idle"

(***************************************************************************)
(* C16  Validation checks types only; values out of range are forwarded.   *)
(***************************************************************************)
\* v is of the type of parameter n, is neither zero nor empty, and lies
\* outside the documented range or enumeration of n.
OutOfDocumented(n, v) ==
  IF n = "numberOfImages"
    THEN v.type = "number" /\ v.val # 0 /\ v.val \notin 1..4
    ELSE NonEmpty(v) /\ v \notin DocumentedEnumeration(n)

\* C16: in an invocation of generate_image whose arguments pass the type
\* check, every optional field that holds a non-zero number outside 1..4 or a
\* non-empty text outside its enumeration is not rejected with InvalidParams
\* and stands unchanged in the configuration of the one upstream call; and
\* when the upstream call then throws an error that is not a protocol error,
\* the invocation fails with InternalError.
C16_OutOfRangeForwarded ==
  (pc # "idle" /\ request.name = ToolName /\ ~FailsValidation(request.arguments)) =>
    \A n \in OptionalNames :
      OutOfDocumented(n, Get(request.arguments, n)) =>
        /\ ~FailedWith("InvalidParams")
        /\ Len(upstreamCalls) = 1
        /\ n \in DOMAIN upstreamCalls[1].config
        /\ upstreamCalls[1].config[n] = Get(request.arguments, n)
        /\ (pc = "done" /\ upstream.kind = "rejected"
              /\ upstream.error.class # "McpError") => FailedWith("InternalError")

\* Five images in the ratio 2:1 were asked for, the request went upstream as
\* it was, upstream refused it, and the caller got an InternalError.
C16_Witness ==
  /\ pc = "done"
  /\ Get(request.arguments, "numberOfImages") = Num(5)
  /\ Get(request.arguments, "aspectRatio") = Str("2:1")
  /\ Len(upstreamCalls) = 1
  /\ upstreamCalls[1].config.numberOfImages = Num(5)
  /\ upstreamCalls[1].config.aspectRatio = Str("2:1")
  /\ upstream = [kind |-> "rejected", error |-> ApiError]
  /\ FailedWith("InternalError")

(***************************************************************************)
(* C17  Protocol errors pass the catch block unchanged; others are wrapped *)
(* once.                                                                   *)
(***************************************************************************)
\* How often the prefix of the wrapping occurs in a message.
Wrappings(message) ==
  Cardinality({k \in 1..Len(message) : message[k] = Lit("Image generation failed: ")})

\* C17: when the catch block of a finished invocation has caught a protocol
\* error (the "No images generated." error or one thrown by the upstream
\* call), the caller gets that very error, code and message, without the
\* prefix "Image generation failed: "; when it has caught anything else, the
\* caller gets an InternalError whose message is the prefix followed by the
\* original message, the prefix occurring once.
C17_ProtocolErrorsUnwrapped ==
  (pc = "done" /\ error # NoError) =>
    /\ Len(outcomes) = 1
    /\ outcomes[1].kind = "error"
    /\ IF error.class = "McpError"
         THEN /\ outcomes[1].error = error
              /\ Wrappings(outcomes[1].error.message) = 0
         ELSE /\ outcomes[1].error.class = "McpError"
              /\ outcomes[1].error.code = "InternalError"
              /\ outcomes[1].error.message =
                   <<Lit("Image generation failed: ")>> \o OriginalMessage(error)
              /\ Wrappings(outcomes[1].error.message) = 1

\* The upstream call threw a protocol error of code InvalidRequest, and the
\* caller got it as it was.
C17_Witness ==
  /\ pc = "done"
  /\ upstream = [kind |-> "rejected", error |-> UpstreamMcpError]
  /\ error = UpstreamMcpError
  /\ outcomes = <<Rejected(McpError("InvalidRequest", <<Lit("request refused")>>))>>

(***************************************************************************)
(* C18  Paths differ within an invocation; a later invocation may          *)
(* overwrite.                                                              *)
(***************************************************************************)
\* C18: the writes of one invocation carry the indices 0, 1, 2, ... in their
\* order, so their paths are pairwise distinct whatever the clock read at each
\* of them; and no write looks at what is at its path: each one, whether it
\* found a file of an earlier invocation there or not, leaves its own bytes
\* at the path.
C18_DistinctWithinOverwriteAcross ==
  /\ \A k \in 1..Len(writes) : writes[k].path.index = k - 1
  /\ \A j, k \in 1..Len(writes) : j # k => writes[j].path # writes[k].path
  /\ \A k \in 1..Len(writes) :
       /\ writes[k].path \in DOMAIN fs
       /\ fs[writes[k].path] = writes[k].data

\* An invocation has written two files at one reading of the clock, and its
\* first write replaced the different bytes an earlier invocation had left
\* at the same path.
C18_Witness ==
  /\ Len(writes) = 2
  /\ writes[1].path.timestamp = writes[2].path.timestamp
  /\ writes[1].path # writes[2].path
  /\ writes[1].replaced = <<"A">>
  /\ writes[1].data = "B"
  /\ fs[writes[1].path] = "B"

(***************************************************************************)
(* C19  Invocations leave nothing behind that a later one reads.           *)
(***************************************************************************)
\* The upstream response holds at least one element and every element holds
\* an image.
Usable(response) ==
  /\ "generatedImages" \in DOMAIN response
  /\ Len(response.generatedImages) > 0
  /\ \A k \in 1..Len(response.generatedImages) :
       "image" \in DOMAIN response.generatedImages[k]

\* The kind of outcome that the name, the arguments and the settled upstream
\* call determine: "result", or the code of the protocol error.
KindFromInputs(req, up) ==
  IF req.name # ToolName THEN "MethodNotFound"
  ELSE IF FailsValidation(req.arguments) THEN "InvalidParams"
  ELSE IF up.kind = "rejected"
    THEN IF up.error.class = "McpError" THEN up.error.code ELSE "InternalError"
  ELSE IF Usable(up.response) THEN "result" ELSE "InternalError"

\* The kind of the outcome the finished invocation has settled with.
OutcomeKind ==
  IF outcomes[1].kind = "result" THEN "result" ELSE outcomes[1].error.code

\* The configuration that the arguments determine.
ConfigFromArguments(args) ==
  [n \in OptionalNames |->
     IF Get(args, n) = Undefined \/ EmptyOrZero(Get(args, n))
       THEN DocumentedDefault(n) ELSE Get(args, n)]

\* Between invocations nothing of an invocation is left but the files and the
\* clock; tools/list returns the one descriptor of generate_image; the
\* configuration of the upstream call is determined by the arguments.
NothingCarriedOver ==
  /\ pc = "idle" =>
       /\ request = NoRequest
       /\ upstreamCalls = <<>>
       /\ upstream = Pending
       /\ imageBuffers = <<>>
       /\ filePaths = <<>>
       /\ writes = <<>>
       /\ error = NoError
       /\ outcomes = <<>>
  /\ listed # NotListed =>
       /\ Len(listed.tools) = 1
       /\ listed.tools[1].name = "generate_image"
       /\ listed.tools[1].inputSchema.required = <<"prompt">>
       /\ DOMAIN listed.tools[1].inputSchema.properties = ArgNames
  /\ proc = "running" => apiKey \in {Str("config-key"), Str("env-key")}
  /\ upstreamCalls # <<>> =>
       upstreamCalls[1].config = ConfigFromArguments(request.arguments)

\* C19 as claimed: nothing is carried from one invocation to the next, and
\* the kind of outcome of a finished invocation is the one that its name, its
\* arguments and its upstream response determine.
C19_OutcomeFromNameArgumentsResponse ==
  /\ NothingCarriedOver
  /\ (pc = "done" /\ Len(outcomes) = 1) => OutcomeKind = KindFromInputs(request, upstream)

\* C19 amended: nothing is carried from one invocation to the next, and the
\* kind of outcome of a finished invocation is the one that its name, its
\* arguments, its upstream response and the success of its own writes
\* determine: InternalError when one of its writes has failed, and what the
\* three others determine when none has.  Files left by earlier invocations
\* and the clock have no part in it.
C19_OutcomeFromOwnInputs ==
  /\ NothingCarriedOver
  /\ pc = "done" =>
       /\ Len(outcomes) = 1
       /\ OutcomeKind = IF error = WriteError THEN "InternalError"
                        ELSE KindFromInputs(request, upstream)

\* After an earlier invocation has left a file, an invocation with the prompt
\* alone has sent the documented defaults upstream, got an image back and
\* failed with InternalError at its first write.
C19_Witness ==
  /\ pc = "done"
  /\ request = [name |-> ToolName, arguments |-> PromptOnly]
  /\ DOMAIN fs # {}
  /\ writes = <<>>
  /\ upstreamCalls[1].config = [n \in OptionalNames |-> DocumentedDefault(n)]
  /\ upstream.kind = "resolved"
  /\ Usable(upstream.response)
  /\ error = WriteError
  /\ FailedWith("InternalError")

====
